---- MODULE Spec2Model ----
(***************************************************************************)
(* Bear With Me: the pronunciation practice loop of main.py (Variant A,    *)
(* practice_word) and of main2.py (Variant B, main /                       *)
(* give_phoneme_feedback), the phoneme translator azure_phoneme_to_text    *)
(* and the score collection of assess_pronunciation_phonemes that both     *)
(* files define, and speak with get_google_home_cast.                      *)
(*                                                                         *)
(* Text is a sequence of chunks, each chunk a string: a phoneme symbol and *)
(* its translation are sequences of one-character strings (<<"h", "h">>);  *)
(* a fixed prompt is a one-chunk sequence; str.format inserts the chunks   *)
(* of its argument between the two halves of the template.  Scores are the *)
(* HundredMark accuracy scores, taken as integers.                         *)
(***************************************************************************)
EXTENDS Integers, Sequences, FiniteSets, TLC

VARIABLES
    variant,         \* "A": main.py, "B": main2.py
    THRESHOLD,       \* main.py:26, main2.py:27
    target_word,     \* main.py:306, main2.py:169
    pc,              \* position of the practice loop
    phoneme_scores,  \* result of the last assess_pronunciation_phonemes call
    low_scores,      \* main.py:285, the dict of low-scoring phonemes
    low_count,       \* main2.py:150, the counter low_scores
    it,              \* position of the running for loop in its iterable
    readable,        \* main.py:293, main2.py:155
    log,             \* collaborator calls of the current round, oldest first
    drilled,         \* phonemes whose drill body was entered in this round
    round,           \* number of assess calls so far, saturating at MaxRounds
    phoneme,         \* azure_phoneme_to_text: the argument
    suffix,          \* a digit sequence that may be appended to the argument
    base,            \* azure_phoneme_to_text: base
    text,            \* azure_phoneme_to_text: text
    tpc,             \* position inside azure_phoneme_to_text
    result,          \* assess_pronunciation_phonemes: the recognizer's result
    nth,             \* assess_pronunciation_phonemes: phonemes collected
    verdict,         \* whether the collected score set ends the loop
    apc,             \* position inside assess_pronunciation_phonemes
    CHROMECAST_AVAILABLE, \* main.py:19-24
    GOOGLE_HOME,     \* main.py:39-40, which of IP, name, neither is configured
    cast_global,     \* main.py:58, the global _cast
    cast,            \* speak: cast, the value get_google_home_cast returned
    outcome,         \* how the last get_google_home_cast call ended
    calls,           \* number of speak calls so far, the id of the last clip
    synthesized,     \* clips written completely to their temporary file
    files,           \* clips whose temporary file exists
    cwd,             \* the working directory of the process
    httpd,           \* the TCPServer of the running speak call
    raising,         \* an exception is on its way out of a try block
    media,           \* the media session of the cast device
    playing,         \* <<sink, clip>> pairs that are sounding now
    heard,           \* <<sink, clip>> pairs played to their end, in that order
    spc              \* position inside speak and get_google_home_cast

loop_vars == <<THRESHOLD, target_word, pc, phoneme_scores, low_scores,
               low_count, it, readable, log, drilled, round>>
translate_vars == <<phoneme, suffix, base, text, tpc>>
assess_vars == <<result, nth, verdict, apc>>
speak_vars == <<CHROMECAST_AVAILABLE, GOOGLE_HOME, cast_global, cast, outcome,
                calls, synthesized, files, cwd, httpd, raising, media, playing,
                heard, spc>>
vars == <<variant, loop_vars, translate_vars, assess_vars, speak_vars>>

(***************************************************************************)
(* Bounds of the model.                                                    *)
(***************************************************************************)
MaxPhonemes == 2   \* phonemes in one assessed utterance
MaxRounds == 3     \* the round counter saturates here
MaxSymLen == 3     \* characters of a symbol handed to the translator
MaxDigits == 2     \* digits appended to a symbol

(***************************************************************************)
(* Characters.  str.isdigit and str.lower on the characters of the model.  *)
(***************************************************************************)
Digits == {"0", "1", "2", "3", "4", "5", "6", "7", "8", "9"}

lower_table ==
    { <<"A", "a">>, <<"B", "b">>, <<"C", "c">>, <<"D", "d">>, <<"E", "e">>, <<"F", "f">>,
      <<"G", "g">>, <<"H", "h">>, <<"I", "i">>, <<"J", "j">>, <<"K", "k">>, <<"L", "l">>,
      <<"M", "m">>, <<"N", "n">>, <<"O", "o">>, <<"P", "p">>, <<"Q", "q">>, <<"R", "r">>,
      <<"S", "s">>, <<"T", "t">>, <<"U", "u">>, <<"V", "v">>, <<"W", "w">>, <<"X", "x">>,
      <<"Y", "y">>, <<"Z", "z">> }

isdigit(c) == c \in Digits

lower(c) ==
    IF \E p \in lower_table : p[1] = c
    THEN (CHOOSE p \in lower_table : p[1] = c)[2]
    ELSE c

(***************************************************************************)
(* dict: a set of <<key, value>> pairs with distinct keys.                 *)
(***************************************************************************)
dict_contains(d, k) == \E p \in d : p[1] = k

dict_getitem(d, k) == (CHOOSE p \in d : p[1] = k)[2]

dict_get(d, k, default) ==
    IF dict_contains(d, k) THEN dict_getitem(d, k) ELSE default

(***************************************************************************)
(* azure_phoneme_to_text.  The standard table is the same in both files;   *)
(* the single-letter table of main2.py differs from main.py's at "h".      *)
(***************************************************************************)
mapping ==
    { <<<<"a", "a">>, <<"a", "h">>>>, <<<<"a", "e">>, <<"u", "h">>>>, <<<<"a", "h">>, <<"u", "h">>>>,
      <<<<"a", "x">>, <<"u", "h">>>>, <<<<"a", "o">>, <<"a", "w">>>>, <<<<"a", "w">>, <<"o", "w">>>>,
      <<<<"a", "y">>, <<"e", "y", "e">>>>, <<<<"b">>, <<"b">>>>, <<<<"c", "h">>, <<"c", "h">>>>,
      <<<<"d">>, <<"d">>>>, <<<<"d", "h">>, <<"t", "h">>>>, <<<<"e", "h">>, <<"e", "h">>>>,
      <<<<"e", "r">>, <<"e", "r">>>>, <<<<"e", "y">>, <<"a", "y">>>>, <<<<"f">>, <<"f">>>>,
      <<<<"g">>, <<"g">>>>, <<<<"h", "h">>, <<"h">>>>, <<<<"i", "h">>, <<"i", "h">>>>,
      <<<<"i", "y">>, <<"e", "e">>>>, <<<<"j", "h">>, <<"j">>>>, <<<<"k">>, <<"k">>>>,
      <<<<"l">>, <<"l">>>>, <<<<"m">>, <<"m">>>>, <<<<"n">>, <<"n">>>>,
      <<<<"n", "g">>, <<"n", "g">>>>, <<<<"o", "w">>, <<"o", "h">>>>, <<<<"o", "y">>, <<"o", "y">>>>,
      <<<<"p">>, <<"p">>>>, <<<<"r">>, <<"r">>>>, <<<<"s">>, <<"s">>>>,
      <<<<"s", "h">>, <<"s", "h">>>>, <<<<"t">>, <<"t">>>>, <<<<"t", "h">>, <<"t", "h">>>>,
      <<<<"u", "h">>, <<"o", "o">>>>, <<<<"u", "w">>, <<"o", "o">>>>, <<<<"v">>, <<"v">>>>,
      <<<<"w">>, <<"w">>>>, <<<<"y">>, <<"y">>>>, <<<<"z">>, <<"z">>>>,
      <<<<"z", "h">>, <<"z", "h">>>>, <<<<"a", "x", "r">>, <<"e", "r">>>> }

single_letter_mapping ==
    { <<<<"a">>, <<"a", "y">>>>, <<<<"b">>, <<"b", "u", "h">>>>, <<<<"c">>, <<"c", "u", "h">>>>,
      <<<<"d">>, <<"d", "u", "h">>>>, <<<<"e">>, <<"e", "e">>>>, <<<<"f">>, <<"f", "u", "h">>>>,
      <<<<"g">>, <<"g", "u", "h">>>>, <<<<"h">>, <<"h", "u", "h">>>>, <<<<"i">>, <<"e", "y", "e">>>>,
      <<<<"j">>, <<"j", "u", "h">>>>, <<<<"k">>, <<"k", "u", "h">>>>, <<<<"l">>, <<"l", "u", "h">>>>,
      <<<<"m">>, <<"m", "u", "h">>>>, <<<<"n">>, <<"n", "u", "h">>>>, <<<<"o">>, <<"o", "h">>>>,
      <<<<"p">>, <<"p", "u", "h">>>>, <<<<"q">>, <<"k", "o", "o">>>>, <<<<"r">>, <<"r", "u", "h">>>>,
      <<<<"s">>, <<"s", "u", "h">>>>, <<<<"t">>, <<"t", "u", "h">>>>, <<<<"u">>, <<"o", "o">>>>,
      <<<<"v">>, <<"v", "u", "h">>>>, <<<<"w">>, <<"w", "u", "h">>>>, <<<<"x">>, <<"e", "x">>>>,
      <<<<"y">>, <<"y", "u", "h">>>>, <<<<"z">>, <<"z", "u", "h">>>> }

single_letter_mapping2 ==
    { <<<<"a">>, <<"a", "y">>>>, <<<<"b">>, <<"b", "u", "h">>>>, <<<<"c">>, <<"c", "u", "h">>>>,
      <<<<"d">>, <<"d", "u", "h">>>>, <<<<"e">>, <<"e", "e">>>>, <<<<"f">>, <<"f", "u", "h">>>>,
      <<<<"g">>, <<"g", "u", "h">>>>, <<<<"h">>, <<"h", "e", "h">>>>, <<<<"i">>, <<"e", "y", "e">>>>,
      <<<<"j">>, <<"j", "u", "h">>>>, <<<<"k">>, <<"k", "u", "h">>>>, <<<<"l">>, <<"l", "u", "h">>>>,
      <<<<"m">>, <<"m", "u", "h">>>>, <<<<"n">>, <<"n", "u", "h">>>>, <<<<"o">>, <<"o", "h">>>>,
      <<<<"p">>, <<"p", "u", "h">>>>, <<<<"q">>, <<"k", "o", "o">>>>, <<<<"r">>, <<"r", "u", "h">>>>,
      <<<<"s">>, <<"s", "u", "h">>>>, <<<<"t">>, <<"t", "u", "h">>>>, <<<<"u">>, <<"o", "o">>>>,
      <<<<"v">>, <<"v", "u", "h">>>>, <<<<"w">>, <<"w", "u", "h">>>>, <<<<"x">>, <<"e", "x">>>>,
      <<<<"y">>, <<"y", "u", "h">>>>, <<<<"z">>, <<"z", "u", "h">>>> }

slm(v) == IF v = "A" THEN single_letter_mapping ELSE single_letter_mapping2

not_digit(c) == ~ isdigit(c)

\* variant of base_of that removes one final digit only
base_of_last_digit(p) ==
    LET kept == IF p # <<>> /\ isdigit(p[Len(p)])
                THEN SubSeq(p, 1, Len(p) - 1)
                ELSE p
    IN  [k \in 1..Len(kept) |-> lower(kept[k])]

\* ''.join([c for c in phoneme if not c.isdigit()]).lower()
base_of(p) ==
    LET kept == SelectSeq(p, not_digit)
    IN  [k \in 1..Len(kept) |-> lower(kept[k])]

\* variant of standard_text: mapping.get(base, "")
standard_text_no_default(b) == dict_get(mapping, b, <<>>)

\* mapping.get(base, base)
standard_text(b) == dict_get(mapping, b, b)

\* variant of extended_text that tests membership in the standard table
extended_text_wrong_table(v, t) ==
    IF Len(t) = 1 /\ dict_contains(mapping, t)
    THEN dict_getitem(slm(v), t)
    ELSE t

\* if len(text) == 1 and text in single_letter_mapping: text = single_letter_mapping[text]
extended_text(v, t) ==
    IF Len(t) = 1 /\ dict_contains(slm(v), t)
    THEN dict_getitem(slm(v), t)
    ELSE t

\* base, then text, then the second pass; each value is computed once
azure_phoneme_to_text(v, p) ==
    CHOOSE returned \in
        {extended_text(v, t) : t \in {standard_text(b) : b \in {base_of(p)}}} : TRUE

(***************************************************************************)
(* The inputs of the translator, and the initial values of the variables   *)
(* of the part of the program a specification does not run.                *)
(***************************************************************************)
Chars == {"a", "h", "x", "r", "g", "c", "A", "G", "0", "1"}

StressDigits == {"0", "2"}

RECURSIVE SeqsUpTo(_, _)
SeqsUpTo(S, n) ==
    IF n = 0 THEN {<<>>}
    ELSE LET shorter == SeqsUpTo(S, n - 1)
         IN  shorter \cup {Append(s, c) : s \in shorter, c \in S}

Symbols == SeqsUpTo(Chars, MaxSymLen)

DigitSeqs == SeqsUpTo(StressDigits, MaxDigits)

None == [some |-> FALSE, items |-> <<>>]

Some(items) == [some |-> TRUE, items |-> items]

loop_idle ==
    /\ THRESHOLD = 80
    /\ target_word = "hello"
    /\ pc = "idle"
    /\ phoneme_scores = None
    /\ low_scores = <<>>
    /\ low_count = 0
    /\ it = 0
    /\ readable = <<>>
    /\ log = <<>>
    /\ drilled = <<>>
    /\ round = 0

translate_idle ==
    /\ phoneme = <<>>
    /\ suffix = <<>>
    /\ base = <<>>
    /\ text = <<>>
    /\ tpc = "idle"

assess_idle ==
    /\ result = [recognized |-> FALSE, phonemes |-> <<>>]
    /\ nth = 0
    /\ verdict = "none"
    /\ apc = "idle"

\* None as the value of _cast and of cast; a handle is a positive number
no_cast == 0

\* the cast device before any clip was loaded on it
no_media == [active |-> FALSE, player_state |-> "UNKNOWN", finished |-> FALSE,
             clip |-> 0]

speak_idle ==
    /\ CHROMECAST_AVAILABLE = FALSE
    /\ GOOGLE_HOME = "auto"
    /\ cast_global = no_cast
    /\ cast = no_cast
    /\ outcome = "none"
    /\ calls = 0
    /\ synthesized = {}
    /\ files = {}
    /\ cwd = "original"
    /\ httpd = "none"
    /\ raising = FALSE
    /\ media = no_media
    /\ playing = {}
    /\ heard = <<>>
    /\ spc = "idle"

(***************************************************************************)
(* azure_phoneme_to_text, statement by statement, on every input symbol.   *)
(***************************************************************************)
InitTranslate ==
    /\ variant \in {"A", "B"}
    /\ phoneme \in Symbols
    /\ suffix \in DigitSeqs
    /\ base = <<>>
    /\ text = <<>>
    /\ tpc = "base"
    /\ loop_idle
    /\ assess_idle
    /\ speak_idle

translate_base ==
    /\ tpc = "base"
    /\ base' = base_of(phoneme)
    /\ tpc' = "mapping"
    /\ UNCHANGED <<variant, loop_vars, assess_vars, speak_vars, phoneme, suffix, text>>

translate_mapping ==
    /\ tpc = "mapping"
    /\ text' = standard_text(base)
    /\ tpc' = "single_letter"
    /\ UNCHANGED <<variant, loop_vars, assess_vars, speak_vars, phoneme, suffix, base>>

translate_single_letter ==
    /\ tpc = "single_letter"
    /\ text' = extended_text(variant, text)
    /\ tpc' = "return"
    /\ UNCHANGED <<variant, loop_vars, assess_vars, speak_vars, phoneme, suffix, base>>

NextTranslate ==
    \/ translate_base
    \/ translate_mapping
    \/ translate_single_letter

SpecTranslate == InitTranslate /\ [][NextTranslate]_vars

(***************************************************************************)
(* Prompts.  A template is the text before and after its "{}".             *)
(***************************************************************************)
PROMPTS ==
    [ intro |-> [pre |-> <<"Let's practice the word ">>, post |-> <<".">>],
      phoneme_practice |-> [pre |-> <<"Let's practice the sound ">>, post |-> <<".">>],
      repeat_phoneme |-> [pre |-> <<"Your turn: ">>, post |-> <<>>],
      whole_word |-> [pre |-> <<"Now try saying the whole word: ">>, post |-> <<>>],
      success_phoneme |-> <<"Nice! Much better!">>,
      all_correct |-> <<"Great job! You pronounced the word correctly!">> ]

PROMPTS2 ==
    [ intro |-> [pre |-> <<"Let's practice the word ">>, post |-> <<".">>],
      phoneme_practice |-> [pre |-> <<"Let's practice the sound ">>, post |-> <<".">>],
      repeat_phoneme |-> <<"That's not quite right, can you say ">>,
      success_phoneme |-> <<"Nice! Much better!">>,
      all_correct |-> <<"Great job! You pronounced all the sounds correctly.">> ]

\* template.format(arg)
format(template, arg) == template.pre \o arg \o template.post

\* f"Please say the word {target_word} now."
please_say(word) == <<"Please say the word ", word, " now.">>

AssessCall(word) == [op |-> "assess", arg |-> <<word>>]

SpeakCall(t) == [op |-> "speak", arg |-> t]

\* speak(text) returns when the prompt has been played
speak(t) == log' = Append(log, SpeakCall(t))

(***************************************************************************)
(* assess_pronunciation_phonemes.  The recognizer either reports no speech *)
(* or the phonemes of the utterance, each with its accuracy score, in the  *)
(* order they were spoken.                                                 *)
(***************************************************************************)
PhonemeSymbols == {<<"h", "h">>, <<"e", "h">>, <<"l">>}

ScoreValues == {59, 60, 80}

PhonemeResults == [phoneme : PhonemeSymbols, accuracy_score : ScoreValues]

RecognitionResults ==
    {[recognized |-> FALSE, phonemes |-> <<>>]}
    \cup {[recognized |-> TRUE, phonemes |-> u] :
            u \in SeqsUpTo(PhonemeResults, MaxPhonemes)}

\* variant of dict_setitem that keeps the value a key already has
dict_setitem_first(d, key, value) ==
    IF \E k \in 1..Len(d) : d[k][1] = key
    THEN d
    ELSE Append(d, <<key, value>>)

\* d[key] = value on an insertion-ordered dict held as a sequence of pairs
dict_setitem(d, key, value) ==
    IF \E k \in 1..Len(d) : d[k][1] = key
    THEN [k \in 1..Len(d) |-> IF d[k][1] = key THEN <<key, value>> ELSE d[k]]
    ELSE Append(d, <<key, value>>)

RECURSIVE collect_scores(_, _)
collect_scores(d, phonemes) ==
    IF phonemes = <<>> THEN d
    ELSE collect_scores(
            dict_setitem(d, Head(phonemes).phoneme, Head(phonemes).accuracy_score),
            Tail(phonemes))

assess_result(r) ==
    IF ~ r.recognized THEN None ELSE Some(collect_scores(<<>>, r.phonemes))

\* what assess_pronunciation_phonemes can return
AssessResults == {assess_result(r) : r \in RecognitionResults}

(***************************************************************************)
(* The decisions of the two loops.                                         *)
(***************************************************************************)
\* variant of falsy: phoneme_scores is None
falsy_none_only(ps) == ~ ps.some

\* not phoneme_scores
falsy(ps) == ~ ps.some \/ Len(ps.items) = 0

below(item, threshold) == item[2] < threshold

\* variant of low_comprehension: sc <= THRESHOLD
low_comprehension_le(ps, threshold) ==
    SelectSeq(ps.items, LAMBDA item : item[2] <= threshold)

\* {ph: sc for ph, sc in phoneme_scores.items() if sc < THRESHOLD}
low_comprehension(ps, threshold) ==
    SelectSeq(ps.items, LAMBDA item : below(item, threshold))

\* variant of is_low: score <= THRESHOLD
is_low_le(score, threshold) == score <= threshold

\* score < THRESHOLD inside give_phoneme_feedback
is_low(score, threshold) == score < threshold

\* variant of all_above: score > THRESHOLD
all_above_strict(ps, threshold) ==
    \A k \in 1..Len(ps.items) : ps.items[k][2] > threshold

\* all(score >= THRESHOLD for score in phoneme_scores.values())
all_above(ps, threshold) ==
    \A k \in 1..Len(ps.items) : ps.items[k][2] >= threshold

next_round == IF round < MaxRounds THEN round + 1 ELSE round

(***************************************************************************)
(* Variant A: main.py, the intro prompt and practice_word.                 *)
(***************************************************************************)
run_intro ==
    /\ variant = "A"
    /\ pc = "intro"
    /\ speak(format(PROMPTS.intro, <<target_word>>))
    /\ pc' = "assess"
    /\ UNCHANGED <<variant, THRESHOLD, target_word, phoneme_scores, low_scores,
                   low_count, it, readable, drilled, round, translate_vars,
                   assess_vars, speak_vars>>

\* variant of practice_word_assess that gives up after MaxRounds rounds
practice_word_assess_capped ==
    /\ variant = "A"
    /\ pc = "assess"
    /\ round < MaxRounds
    /\ log' = <<AssessCall(target_word)>>
    /\ drilled' = <<>>
    /\ round' = next_round
    /\ pc' = "recognize"
    /\ UNCHANGED <<variant, THRESHOLD, target_word, phoneme_scores, low_scores,
                   low_count, it, readable, translate_vars,
                   assess_vars, speak_vars>>

practice_word_assess ==
    /\ variant = "A"
    /\ pc = "assess"
    /\ log' = <<AssessCall(target_word)>>
    /\ drilled' = <<>>
    /\ round' = next_round
    /\ pc' = "recognize"
    /\ UNCHANGED <<variant, THRESHOLD, target_word, phoneme_scores, low_scores,
                   low_count, it, readable, translate_vars,
                   assess_vars, speak_vars>>

assess_pronunciation_phonemes ==
    /\ variant = "A"
    /\ pc = "recognize"
    /\ phoneme_scores' \in AssessResults
    /\ pc' = "check"
    /\ UNCHANGED <<variant, THRESHOLD, target_word, low_scores, low_count, it,
                   readable, log, drilled, round, translate_vars,
                   assess_vars, speak_vars>>

practice_word_continue ==
    /\ variant = "A"
    /\ pc = "check"
    /\ falsy(phoneme_scores)
    /\ pc' = "assess"
    /\ UNCHANGED <<variant, THRESHOLD, target_word, phoneme_scores, low_scores,
                   low_count, it, readable, log, drilled, round, translate_vars,
                   assess_vars, speak_vars>>

\* low_scores[ph] = sc for every low pair of ps, on top of the dict d
RECURSIVE update_low(_, _)
update_low(d, pairs) ==
    IF pairs = <<>> THEN d
    ELSE update_low(dict_setitem(d, Head(pairs)[1], Head(pairs)[2]), Tail(pairs))

collect_low(d, ps, threshold) ==
    update_low(d, SelectSeq(ps.items, LAMBDA item : item[2] < threshold))

\* variant of practice_word_low_scores that adds to the low_scores it has
practice_word_low_scores_kept ==
    /\ variant = "A"
    /\ pc = "check"
    /\ ~ falsy(phoneme_scores)
    /\ low_scores' = collect_low(low_scores, phoneme_scores, THRESHOLD)
    /\ it' = 0
    /\ pc' = IF low_scores' = <<>> THEN "all_correct" ELSE "for"
    /\ UNCHANGED <<variant, THRESHOLD, target_word, phoneme_scores, low_count,
                   readable, log, drilled, round, translate_vars,
                   assess_vars, speak_vars>>

practice_word_low_scores ==
    /\ variant = "A"
    /\ pc = "check"
    /\ ~ falsy(phoneme_scores)
    /\ low_scores' = low_comprehension(phoneme_scores, THRESHOLD)
    /\ it' = 0
    /\ pc' = IF low_scores' = <<>> THEN "all_correct" ELSE "for"
    /\ UNCHANGED <<variant, THRESHOLD, target_word, phoneme_scores, low_count,
                   readable, log, drilled, round, translate_vars,
                   assess_vars, speak_vars>>

\* variant of practice_word_all_correct without the break
practice_word_all_correct_no_break ==
    /\ variant = "A"
    /\ pc = "all_correct"
    /\ speak(PROMPTS.all_correct)
    /\ pc' = "assess"
    /\ UNCHANGED <<variant, THRESHOLD, target_word, phoneme_scores, low_scores,
                   low_count, it, readable, drilled, round, translate_vars,
                   assess_vars, speak_vars>>

practice_word_all_correct ==
    /\ variant = "A"
    /\ pc = "all_correct"
    /\ speak(PROMPTS.all_correct)
    /\ pc' = "done"
    /\ UNCHANGED <<variant, THRESHOLD, target_word, phoneme_scores, low_scores,
                   low_count, it, readable, drilled, round, translate_vars,
                   assess_vars, speak_vars>>

practice_word_phoneme_practice ==
    /\ variant = "A"
    /\ pc = "for"
    /\ it < Len(low_scores)
    /\ it' = it + 1
    /\ readable' = azure_phoneme_to_text("A", low_scores[it + 1][1])
    /\ drilled' = Append(drilled, low_scores[it + 1][1])
    /\ speak(format(PROMPTS.phoneme_practice, readable'))
    /\ pc' = "repeat_phoneme"
    /\ UNCHANGED <<variant, THRESHOLD, target_word, phoneme_scores, low_scores,
                   low_count, round, translate_vars,
                   assess_vars, speak_vars>>

practice_word_repeat_phoneme ==
    /\ variant = "A"
    /\ pc = "repeat_phoneme"
    /\ speak(format(PROMPTS.repeat_phoneme, readable))
    /\ pc' = "success_phoneme"
    /\ UNCHANGED <<variant, THRESHOLD, target_word, phoneme_scores, low_scores,
                   low_count, it, readable, drilled, round, translate_vars,
                   assess_vars, speak_vars>>

practice_word_success_phoneme ==
    /\ variant = "A"
    /\ pc = "success_phoneme"
    /\ speak(PROMPTS.success_phoneme)
    /\ pc' = "for"
    /\ UNCHANGED <<variant, THRESHOLD, target_word, phoneme_scores, low_scores,
                   low_count, it, readable, drilled, round, translate_vars,
                   assess_vars, speak_vars>>

\* variant of practice_word_whole_word that does not speak
practice_word_whole_word_silent ==
    /\ variant = "A"
    /\ pc = "for"
    /\ it = Len(low_scores)
    /\ pc' = "assess"
    /\ UNCHANGED <<variant, THRESHOLD, target_word, phoneme_scores, low_scores,
                   low_count, it, readable, log, drilled, round, translate_vars,
                   assess_vars, speak_vars>>

practice_word_whole_word ==
    /\ variant = "A"
    /\ pc = "for"
    /\ it = Len(low_scores)
    /\ speak(format(PROMPTS.whole_word, <<target_word>>))
    /\ pc' = "assess"
    /\ UNCHANGED <<variant, THRESHOLD, target_word, phoneme_scores, low_scores,
                   low_count, it, readable, drilled, round, translate_vars,
                   assess_vars, speak_vars>>

(***************************************************************************)
(* Variant B: main2.py, main and give_phoneme_feedback.                    *)
(***************************************************************************)
main_assess ==
    /\ variant = "B"
    /\ pc = "assess"
    /\ log' = <<AssessCall(target_word)>>
    /\ drilled' = <<>>
    /\ round' = next_round
    /\ pc' = "announce"
    /\ UNCHANGED <<variant, THRESHOLD, target_word, phoneme_scores, low_scores,
                   low_count, it, readable, translate_vars,
                   assess_vars, speak_vars>>

assess2_please_say ==
    /\ variant = "B"
    /\ pc = "announce"
    /\ speak(please_say(target_word))
    /\ pc' = "recognize"
    /\ UNCHANGED <<variant, THRESHOLD, target_word, phoneme_scores, low_scores,
                   low_count, it, readable, drilled, round, translate_vars,
                   assess_vars, speak_vars>>

assess2_pronunciation_phonemes ==
    /\ variant = "B"
    /\ pc = "recognize"
    /\ phoneme_scores' \in AssessResults
    /\ pc' = "check"
    /\ UNCHANGED <<variant, THRESHOLD, target_word, low_scores, low_count, it,
                   readable, log, drilled, round, translate_vars,
                   assess_vars, speak_vars>>

main_continue ==
    /\ variant = "B"
    /\ pc = "check"
    /\ falsy(phoneme_scores)
    /\ pc' = "assess"
    /\ UNCHANGED <<variant, THRESHOLD, target_word, phoneme_scores, low_scores,
                   low_count, it, readable, log, drilled, round, translate_vars,
                   assess_vars, speak_vars>>

give_phoneme_feedback ==
    /\ variant = "B"
    /\ pc = "check"
    /\ ~ falsy(phoneme_scores)
    /\ low_count' = 0
    /\ it' = 0
    /\ pc' = "for"
    /\ UNCHANGED <<variant, THRESHOLD, target_word, phoneme_scores, low_scores,
                   readable, log, drilled, round, translate_vars,
                   assess_vars, speak_vars>>

give_phoneme_feedback_skip ==
    /\ variant = "B"
    /\ pc = "for"
    /\ it < Len(phoneme_scores.items)
    /\ ~ is_low(phoneme_scores.items[it + 1][2], THRESHOLD)
    /\ it' = it + 1
    /\ UNCHANGED <<variant, THRESHOLD, target_word, pc, phoneme_scores,
                   low_scores, low_count, readable, log, drilled, round,
                   translate_vars,
                   assess_vars, speak_vars>>

give_phoneme_feedback_repeat_phoneme ==
    /\ variant = "B"
    /\ pc = "for"
    /\ it < Len(phoneme_scores.items)
    /\ is_low(phoneme_scores.items[it + 1][2], THRESHOLD)
    /\ it' = it + 1
    /\ low_count' = low_count + 1
    /\ readable' = azure_phoneme_to_text("B", phoneme_scores.items[it + 1][1])
    /\ drilled' = Append(drilled, phoneme_scores.items[it + 1][1])
    /\ speak(PROMPTS2.repeat_phoneme)
    /\ pc' = "readable"
    /\ UNCHANGED <<variant, THRESHOLD, target_word, phoneme_scores, low_scores,
                   round, translate_vars,
                   assess_vars, speak_vars>>

\* variant of give_phoneme_feedback_readable: speak(phoneme)
give_phoneme_feedback_untranslated ==
    /\ variant = "B"
    /\ pc = "readable"
    /\ speak(phoneme_scores.items[it][1])
    /\ pc' = "success_phoneme"
    /\ UNCHANGED <<variant, THRESHOLD, target_word, phoneme_scores, low_scores,
                   low_count, it, readable, drilled, round, translate_vars,
                   assess_vars, speak_vars>>

give_phoneme_feedback_readable ==
    /\ variant = "B"
    /\ pc = "readable"
    /\ speak(readable)
    /\ pc' = "success_phoneme"
    /\ UNCHANGED <<variant, THRESHOLD, target_word, phoneme_scores, low_scores,
                   low_count, it, readable, drilled, round, translate_vars,
                   assess_vars, speak_vars>>

give_phoneme_feedback_success_phoneme ==
    /\ variant = "B"
    /\ pc = "success_phoneme"
    /\ speak(PROMPTS2.success_phoneme)
    /\ pc' = "for"
    /\ UNCHANGED <<variant, THRESHOLD, target_word, phoneme_scores, low_scores,
                   low_count, it, readable, drilled, round, translate_vars,
                   assess_vars, speak_vars>>

give_phoneme_feedback_all_correct ==
    /\ variant = "B"
    /\ pc = "for"
    /\ it = Len(phoneme_scores.items)
    /\ low_count = 0
    /\ speak(PROMPTS2.all_correct)
    /\ pc' = "break"
    /\ UNCHANGED <<variant, THRESHOLD, target_word, phoneme_scores, low_scores,
                   low_count, it, readable, drilled, round, translate_vars,
                   assess_vars, speak_vars>>

give_phoneme_feedback_return ==
    /\ variant = "B"
    /\ pc = "for"
    /\ it = Len(phoneme_scores.items)
    /\ low_count # 0
    /\ pc' = "break"
    /\ UNCHANGED <<variant, THRESHOLD, target_word, phoneme_scores, low_scores,
                   low_count, it, readable, log, drilled, round, translate_vars,
                   assess_vars, speak_vars>>

main_break ==
    /\ variant = "B"
    /\ pc = "break"
    /\ pc' = IF all_above(phoneme_scores, THRESHOLD) THEN "done" ELSE "assess"
    /\ UNCHANGED <<variant, THRESHOLD, target_word, phoneme_scores, low_scores,
                   low_count, it, readable, log, drilled, round, translate_vars,
                   assess_vars, speak_vars>>

(***************************************************************************)
(* The practice loops.  main.py fixes THRESHOLD and the word; main2.py     *)
(* reads THRESHOLD from the environment, 80 when it is not set.            *)
(***************************************************************************)
ThresholdEnv == {60, 80}

Init ==
    /\ variant \in {"A", "B"}
    /\ \/ variant = "A" /\ THRESHOLD = 80 /\ target_word = "hello" /\ pc = "intro"
       \/ variant = "B" /\ THRESHOLD \in ThresholdEnv /\ target_word = "apple"
          /\ pc = "assess"
    /\ phoneme_scores = None
    /\ low_scores = <<>>
    /\ low_count = 0
    /\ it = 0
    /\ readable = <<>>
    /\ log = <<>>
    /\ drilled = <<>>
    /\ round = 0
    /\ translate_idle
    /\ assess_idle
    /\ speak_idle

Next ==
    \/ run_intro
    \/ practice_word_assess
    \/ assess_pronunciation_phonemes
    \/ practice_word_continue
    \/ practice_word_low_scores
    \/ practice_word_all_correct
    \/ practice_word_phoneme_practice
    \/ practice_word_repeat_phoneme
    \/ practice_word_success_phoneme
    \/ practice_word_whole_word
    \/ main_assess
    \/ assess2_please_say
    \/ assess2_pronunciation_phonemes
    \/ main_continue
    \/ give_phoneme_feedback
    \/ give_phoneme_feedback_skip
    \/ give_phoneme_feedback_repeat_phoneme
    \/ give_phoneme_feedback_readable
    \/ give_phoneme_feedback_success_phoneme
    \/ give_phoneme_feedback_all_correct
    \/ give_phoneme_feedback_return
    \/ main_break

Spec == Init /\ [][Next]_vars

\* every call of assess and of speak returns
FairSpec == Spec /\ WF_vars(Next)

(***************************************************************************)
(* Vocabulary of the properties, stated on the score set itself.           *)
(***************************************************************************)
NonEmptyScoreSet(ps) == ps.some /\ ps.items # <<>>

HasScoreBelow(ps, threshold) ==
    \E k \in 1..Len(ps.items) : ps.items[k][2] < threshold

Accepted(ps, threshold) == NonEmptyScoreSet(ps) /\ ~ HasScoreBelow(ps, threshold)

Keys(ps) == {ps.items[k][1] : k \in 1..Len(ps.items)}

PosOf(ps, key) == CHOOSE k \in 1..Len(ps.items) : ps.items[k][1] = key

ScoreOf(ps, key) == ps.items[PosOf(ps, key)][2]

IsPrefix(s, t) == Len(s) <= Len(t) /\ \A k \in 1..Len(s) : s[k] = t[k]

\* the low-scoring phonemes of a score set, first inserted first
RECURSIVE LowFrom(_, _, _)
LowFrom(ps, threshold, k) ==
    IF k > Len(ps.items) THEN <<>>
    ELSE (IF ps.items[k][2] < threshold THEN <<ps.items[k][1]>> ELSE <<>>)
         \o LowFrom(ps, threshold, k + 1)

LowPhonemes(ps, threshold) == LowFrom(ps, threshold, 1)

\* the collaborator calls that open a round
RoundOpening ==
    IF variant = "A" THEN <<AssessCall(target_word)>>
    ELSE <<AssessCall(target_word), SpeakCall(please_say(target_word))>>

\* a step that issues the next assess call
AssessCallStep == pc = "assess" /\ pc' # "assess"

C1_RoundEnd ==
    /\ (pc # "done" /\ pc' = "done") => Accepted(phoneme_scores, THRESHOLD)
    /\ (pc \notin {"intro", "assess"} /\ pc' = "assess"
            /\ NonEmptyScoreSet(phoneme_scores))
          => HasScoreBelow(phoneme_scores, THRESHOLD)
    /\ (pc = "assess" /\ NonEmptyScoreSet(phoneme_scores))
          => /\ HasScoreBelow(phoneme_scores, THRESHOLD)
             /\ log' = <<AssessCall(target_word)>>
             /\ target_word' = target_word

(***************************************************************************)
(* C1: in both loops a round that obtained a non-empty score set ends the  *)
(* loop if and only if no phoneme of that score set scored below           *)
(* THRESHOLD; after a round with a phoneme below THRESHOLD the loop goes   *)
(* on, and its next collaborator call is assess for the same target word.  *)
(***************************************************************************)
C1_LoopEndsIffNoPhonemeBelowThreshold == [][C1_RoundEnd]_vars

C1_Witness ==
    /\ variant = "B"
    /\ pc = "announce"
    /\ round >= 2
    /\ NonEmptyScoreSet(phoneme_scores)
    /\ \E k \in 1..Len(phoneme_scores.items) :
          phoneme_scores.items[k][2] = THRESHOLD

RoundEvaluated == pc \notin {"intro", "announce", "recognize", "check"}

FeedbackOver == pc \in {"break", "done", "assess"}

OrderedLowSelection(sel, ps, threshold) ==
    /\ \A k \in 1..Len(sel) :
          sel[k] \in Keys(ps) /\ ScoreOf(ps, sel[k]) < threshold
    /\ \A a, b \in 1..Len(sel) : a < b => PosOf(ps, sel[a]) < PosOf(ps, sel[b])

CompleteLowSelection(sel, ps, threshold) ==
    \A key \in Keys(ps) :
        ScoreOf(ps, key) < threshold => \E k \in 1..Len(sel) : sel[k] = key

(***************************************************************************)
(* C2: the low-scoring phonemes of a round are exactly the phonemes whose  *)
(* score is strictly less than the threshold, a score equal to the         *)
(* threshold being accepted, and they are visited in the order in which    *)
(* they were inserted into the score set.                                  *)
(***************************************************************************)
C2_LowIsStrictlyBelowInInsertionOrder ==
    (RoundEvaluated /\ NonEmptyScoreSet(phoneme_scores)) =>
        /\ OrderedLowSelection(drilled, phoneme_scores, THRESHOLD)
        /\ FeedbackOver =>
              CompleteLowSelection(drilled, phoneme_scores, THRESHOLD)
        /\ variant = "A" =>
              LET low == [k \in 1..Len(low_scores) |-> low_scores[k][1]]
              IN  /\ OrderedLowSelection(low, phoneme_scores, THRESHOLD)
                  /\ CompleteLowSelection(low, phoneme_scores, THRESHOLD)
                  /\ \A k \in 1..Len(low_scores) :
                        low_scores[k][2] = ScoreOf(phoneme_scores, low[k])

C2_Witness ==
    /\ variant = "A"
    /\ pc = "assess"
    /\ Len(phoneme_scores.items) = 2
    /\ phoneme_scores.items[1][2] = THRESHOLD
    /\ phoneme_scores.items[2][2] < THRESHOLD
    /\ drilled = <<phoneme_scores.items[2][1]>>

AllCorrectPrompt ==
    IF variant = "A" THEN PROMPTS.all_correct ELSE PROMPTS2.all_correct

AcceptedRoundLog == RoundOpening \o <<SpeakCall(AllCorrectPrompt)>>

C3_AcceptedRoundState ==
    Accepted(phoneme_scores, THRESHOLD) =>
        /\ pc \in {"check", "all_correct", "for", "break", "done"}
        /\ IsPrefix(log, AcceptedRoundLog)
        /\ pc \in {"check", "all_correct", "for"} => log = RoundOpening
        /\ pc \in {"break", "done"} => log = AcceptedRoundLog
        /\ pc = "done" => ~ ENABLED Next

(***************************************************************************)
(* C3: in a round whose score set is non-empty with every score >=         *)
(* THRESHOLD the only feedback prompt is one "all correct" prompt, the     *)
(* loop reaches its terminal state, and nothing is called after it.        *)
(***************************************************************************)
C3_AcceptedRoundSpeaksAllCorrectOnceAndStops ==
    /\ [] C3_AcceptedRoundState
    /\ (pc = "check" /\ Accepted(phoneme_scores, THRESHOLD)) ~> (pc = "done")

C3_Witness ==
    /\ variant = "A"
    /\ pc = "done"
    /\ round = 2
    /\ Len(phoneme_scores.items) = 2
    /\ log = AcceptedRoundLog

AbsentOrEmpty == phoneme_scores = None \/ phoneme_scores = Some(<<>>)

C4_Retry ==
    /\ (pc = "check" /\ AbsentOrEmpty) =>
          /\ log = RoundOpening
          /\ pc' = "assess"
          /\ UNCHANGED <<log, low_scores, low_count, it, readable, drilled,
                         target_word>>
    /\ (pc = "assess" /\ AbsentOrEmpty /\ round > 0) =>
          /\ log = RoundOpening
          /\ log' = <<AssessCall(target_word)>>
          /\ target_word' = target_word

(***************************************************************************)
(* C4: when assess returns None or an empty score mapping the loop         *)
(* evaluates nothing, speaks no feedback prompt, does not end, and next    *)
(* calls assess for the same target word; both results are handled alike,  *)
(* at whatever round they occur.                                           *)
(***************************************************************************)
C4_AbsentAndEmptyResultsRetry == [][C4_Retry]_vars

C4_Witness ==
    /\ variant = "B"
    /\ pc = "announce"
    /\ round = MaxRounds
    /\ phoneme_scores = Some(<<>>)
    /\ log = <<AssessCall(target_word)>>

RECURSIVE DrillPromptsA(_)
DrillPromptsA(low) ==
    IF low = <<>> THEN <<>>
    ELSE LET spoken == azure_phoneme_to_text("A", Head(low))
         IN  << SpeakCall(<<"Let's practice the sound ">> \o spoken \o <<".">>),
                SpeakCall(<<"Your turn: ">> \o spoken),
                SpeakCall(<<"Nice! Much better!">>) >>
             \o DrillPromptsA(Tail(low))

DrillRoundLogA ==
    <<AssessCall(target_word)>>
    \o DrillPromptsA(LowPhonemes(phoneme_scores, THRESHOLD))
    \o <<SpeakCall(<<"Now try saying the whole word: ", target_word>>)>>

DrillRoundA ==
    /\ variant = "A"
    /\ NonEmptyScoreSet(phoneme_scores)
    /\ HasScoreBelow(phoneme_scores, THRESHOLD)

C5_DrillState ==
    (DrillRoundA /\ pc \notin {"recognize", "check"}) =>
        /\ IsPrefix(log, DrillRoundLogA)
        /\ pc = "assess" <=> log = DrillRoundLogA

C5_DrillStep == (DrillRoundA /\ AssessCallStep) => log = DrillRoundLogA

(***************************************************************************)
(* C5: Variant A, a round with low-scoring phonemes p1..pk: the prompts    *)
(* are, for each pi in score-set order, the practice prompt and the        *)
(* your-turn prompt with translate(pi) and the encouragement, then the     *)
(* whole-word prompt with the target word; assess is not called in         *)
(* between, and is called next after the whole-word prompt.                *)
(***************************************************************************)
C5_VariantADrillSequence == [] C5_DrillState /\ [][C5_DrillStep]_vars

C5_Witness ==
    /\ variant = "A"
    /\ pc = "assess"
    /\ Len(LowPhonemes(phoneme_scores, THRESHOLD)) = 2
    /\ Len(log) = 8

RECURSIVE RetryPromptsB(_)
RetryPromptsB(low) ==
    IF low = <<>> THEN <<>>
    ELSE << SpeakCall(<<"That's not quite right, can you say ">>),
            SpeakCall(azure_phoneme_to_text("B", Head(low))),
            SpeakCall(<<"Nice! Much better!">>) >>
         \o RetryPromptsB(Tail(low))

FeedbackLogB ==
    LET low == LowPhonemes(phoneme_scores, THRESHOLD)
    IN  <<AssessCall(target_word), SpeakCall(please_say(target_word))>>
        \o RetryPromptsB(low)
        \o (IF low = <<>>
            THEN <<SpeakCall(<<"Great job! You pronounced all the sounds correctly.">>)>>
            ELSE <<>>)

IsWholeWordPrompt(call) ==
    /\ call.op = "speak"
    /\ call.arg # <<>>
    /\ Head(call.arg) = "Now try saying the whole word: "

FeedbackRoundB == variant = "B" /\ NonEmptyScoreSet(phoneme_scores)

C6_FeedbackState ==
    /\ (FeedbackRoundB /\ pc \notin {"announce", "recognize"}) =>
          /\ IsPrefix(log, FeedbackLogB)
          /\ pc \in {"break", "done", "assess"} => log = FeedbackLogB
    /\ variant = "B" => \A k \in 1..Len(log) : ~ IsWholeWordPrompt(log[k])

C6_FeedbackStep == (FeedbackRoundB /\ AssessCallStep) => log = FeedbackLogB

(***************************************************************************)
(* C6: Variant B, a score set with low-scoring phonemes p1..pk: the        *)
(* feedback prompts are, for each pi in score-set order, the retry stem,   *)
(* translate(pi) and the encouragement; the all-correct prompt is spoken   *)
(* once if and only if k = 0; no whole-word prompt is spoken.              *)
(***************************************************************************)
C6_VariantBFeedbackSequence == [] C6_FeedbackState /\ [][C6_FeedbackStep]_vars

C6_Witness ==
    /\ variant = "B"
    /\ pc = "break"
    /\ Len(phoneme_scores.items) = 2
    /\ Len(LowPhonemes(phoneme_scores, THRESHOLD)) = 1
    /\ phoneme_scores.items[1][2] >= THRESHOLD
    /\ Len(log) = 5

(***************************************************************************)
(* C7: the loop has no maximum round count.  When every assess and speak   *)
(* call returns, a round with a non-empty score set whose scores are all   *)
(* >= THRESHOLD leads to the terminal state; the loop ends after no other  *)
(* round, and before that it always has a next step, whatever the number   *)
(* of rounds played.                                                       *)
(***************************************************************************)
C7_NoMaximumRoundCount ==
    /\ (pc = "check" /\ Accepted(phoneme_scores, THRESHOLD)) ~> (pc = "done")
    /\ [] (pc = "done" => Accepted(phoneme_scores, THRESHOLD))
    /\ [] (pc # "done" => ENABLED Next)
    /\ [][(round = MaxRounds /\ pc = "assess") => pc' # "assess"]_vars

C7_Witness ==
    /\ round = MaxRounds
    /\ pc = "check"
    /\ variant = "A"
    /\ ~ Accepted(phoneme_scores, THRESHOLD)
    /\ low_scores # <<>>

Letters ==
    {"a", "b", "c", "d", "e", "f", "g", "h", "i", "j", "k", "l", "m",
     "n", "o", "p", "q", "r", "s", "t", "u", "v", "w", "x", "y", "z"}

\* the symbol without its digits, in lower case
RECURSIVE LowerStripped(_)
LowerStripped(symbol) ==
    IF symbol = <<>> THEN <<>>
    ELSE IF Head(symbol) \in Digits THEN LowerStripped(Tail(symbol))
    ELSE <<lower(Head(symbol))>> \o LowerStripped(Tail(symbol))

StandardKeys == {p[1] : p \in mapping}

IsText(t) == \A k \in 1..Len(t) : t[k] \in Chars \cup Letters

(***************************************************************************)
(* C8 in its general form: every symbol whose lower-cased, digit-stripped  *)
(* base is unknown to the standard table is returned as that base.         *)
(***************************************************************************)
C8_UnknownBaseReturnedUnchanged ==
    (tpc = "return" /\ LowerStripped(phoneme) \notin StandardKeys) =>
        text = LowerStripped(phoneme)

(***************************************************************************)
(* C8: azure_phoneme_to_text returns a text for every symbol; when the     *)
(* lower-cased, digit-stripped base of the symbol is unknown to the        *)
(* standard table, the text is that base, unless the base is a single      *)
(* letter a-z, which is returned in the expanded form of the single-letter *)
(* table.                                                                  *)
(***************************************************************************)
C8_UnknownBaseReturnedUnlessSingleLetter ==
    /\ tpc # "return" => ENABLED NextTranslate
    /\ tpc = "return" => IsText(text)
    /\ (tpc = "return" /\ LowerStripped(phoneme) \notin StandardKeys) =>
          LET b == LowerStripped(phoneme)
          IN  IF Len(b) = 1 /\ b[1] \in Letters
              THEN text = dict_getitem(slm(variant), b) /\ Len(text) > 1
              ELSE text = b

C8_Witness ==
    /\ tpc = "return"
    /\ phoneme = <<"G", "c", "1">>
    /\ text = <<"g", "c">>

C9_SecondPass ==
    tpc = "single_letter" =>
        /\ tpc' = "return"
        /\ (Len(text) = 1 /\ dict_contains(slm(variant), text)) =>
              text' = dict_getitem(slm(variant), text)
        /\ Len(text) > 1 => text' = text

(***************************************************************************)
(* C9: a text of length 1 from the standard-table step that is a key of    *)
(* the single-letter table is returned in that table's expanded form       *)
(* ("g1" gives "guh"); a multi-letter text from the standard-table step is *)
(* returned unchanged; no single letter a-z is ever returned.              *)
(***************************************************************************)
C9_SingleLettersAreExpanded ==
    /\ [][C9_SecondPass]_vars
    /\ [] (tpc = "return" => ~ (Len(text) = 1 /\ text[1] \in Letters))

C9_Witness ==
    /\ tpc = "return"
    /\ phoneme = <<"g", "1">>
    /\ base = <<"g">>
    /\ text = <<"g", "u", "h">>

(***************************************************************************)
(* C10: a symbol and the same symbol followed by any sequence of digits    *)
(* have the same translation; stripping the digits of an already stripped  *)
(* symbol changes nothing.                                                 *)
(***************************************************************************)
C10_TrailingDigitsDoNotMatter ==
    /\ tpc = "return" => text = azure_phoneme_to_text(variant, phoneme \o suffix)
    /\ tpc # "base" => base_of(base) = base

C10_Witness ==
    /\ tpc = "return"
    /\ phoneme = <<"A", "h">>
    /\ Len(suffix) = MaxDigits
    /\ text = <<"u", "h">>

\* the low-scoring pairs of a score set, first inserted first
RECURSIVE LowPairsFrom(_, _, _)
LowPairsFrom(ps, threshold, k) ==
    IF k > Len(ps.items) THEN <<>>
    ELSE (IF ps.items[k][2] < threshold THEN <<ps.items[k]>> ELSE <<>>)
         \o LowPairsFrom(ps, threshold, k + 1)

C13_DecisionState ==
    (RoundEvaluated /\ NonEmptyScoreSet(phoneme_scores)) =>
        /\ variant = "A" =>
              low_scores = LowPairsFrom(phoneme_scores, THRESHOLD, 1)
        /\ (variant = "B" /\ FeedbackOver) =>
              low_count = Len(LowPhonemes(phoneme_scores, THRESHOLD))
        /\ FeedbackOver =>
              /\ drilled = LowPhonemes(phoneme_scores, THRESHOLD)
              /\ pc = "done" => Accepted(phoneme_scores, THRESHOLD)
              /\ pc = "assess" => ~ Accepted(phoneme_scores, THRESHOLD)

C13_DecisionStep ==
    /\ phoneme_scores' # phoneme_scores =>
          pc = "recognize" /\ phoneme_scores' \in AssessResults
    /\ (pc = "check" /\ NonEmptyScoreSet(phoneme_scores)) =>
          /\ phoneme_scores' = phoneme_scores
          /\ variant = "A" =>
                low_scores' = LowPairsFrom(phoneme_scores, THRESHOLD, 1)
          /\ variant = "B" => low_count' = 0 /\ it' = 0
    /\ pc = "break" =>
          (pc' = "done" <=> Accepted(phoneme_scores, THRESHOLD))

(***************************************************************************)
(* C13: the decision of a round, its low-scoring set and whether the loop  *)
(* ends, is a function of that round's score set and the threshold only;   *)
(* nothing of an earlier round is merged into or carried over to it.       *)
(***************************************************************************)
C13_DecisionDependsOnThisRoundOnly ==
    [] C13_DecisionState /\ [][C13_DecisionStep]_vars

\* an accepted second round after a round that drilled a phoneme
C13_Witness ==
    /\ variant = "A"
    /\ pc = "done"
    /\ round = 2
    /\ readable # <<>>
    /\ low_scores = <<>>
    /\ drilled = <<>>

AllCorrectSpoken ==
    \E k \in 1..Len(log) : log[k] = SpeakCall(PROMPTS2.all_correct)

C16_AgreeState ==
    (variant = "B" /\ pc = "break") =>
        /\ low_count = 0 <=>
              \A k \in 1..Len(phoneme_scores.items) :
                  phoneme_scores.items[k][2] >= THRESHOLD
        /\ AllCorrectSpoken <=> low_count = 0

C16_AgreeStep ==
    (variant = "B" /\ pc = "break") =>
        /\ pc' = "done" <=> AllCorrectSpoken
        /\ pc' = "assess" <=> ~ AllCorrectSpoken

(***************************************************************************)
(* C16: in Variant B the two evaluations of a round agree: main leaves the *)
(* loop after a round if and only if give_phoneme_feedback spoke the       *)
(* all-correct prompt in it; its counter of low scores is 0 exactly when   *)
(* every score is >= THRESHOLD.                                            *)
(***************************************************************************)
C16_FeedbackAndBreakAgree == [] C16_AgreeState /\ [][C16_AgreeStep]_vars

C16_Witness ==
    /\ variant = "B"
    /\ pc = "done"
    /\ THRESHOLD = 60
    /\ Len(phoneme_scores.items) = 2
    /\ phoneme_scores.items[1][2] = 60
    /\ low_count = 0
    /\ AllCorrectSpoken

(***************************************************************************)
(* C18: the translator of main.py and the translator of main2.py return    *)
(* the same text for every symbol.                                         *)
(***************************************************************************)
C18_TranslatorsAgree ==
    tpc = "return" =>
        /\ text = azure_phoneme_to_text("A", phoneme)
        /\ text = azure_phoneme_to_text("B", phoneme)

(***************************************************************************)
(* assess_pronunciation_phonemes, phoneme by phoneme, on every recognizer  *)
(* result of up to MaxUtterance phonemes, followed by the test the loop    *)
(* makes on the returned score set.                                        *)
(***************************************************************************)
MaxUtterance == 3   \* phonemes the recognizer reports for one utterance

UtteranceResults ==
    {[recognized |-> FALSE, phonemes |-> <<>>]}
    \cup {[recognized |-> TRUE, phonemes |-> u] :
            u \in SeqsUpTo(PhonemeResults, MaxUtterance)}

InitAssess ==
    /\ variant \in {"A", "B"}
    /\ \/ variant = "A" /\ THRESHOLD = 80 /\ target_word = "hello"
       \/ variant = "B" /\ THRESHOLD \in ThresholdEnv /\ target_word = "apple"
    /\ pc = "recognize"
    /\ phoneme_scores = None
    /\ low_scores = <<>>
    /\ low_count = 0
    /\ it = 0
    /\ readable = <<>>
    /\ log = <<>>
    /\ drilled = <<>>
    /\ round = 0
    /\ result \in UtteranceResults
    /\ nth = 0
    /\ verdict = "none"
    /\ apc = "reason"
    /\ translate_idle
    /\ speak_idle

assess_no_speech ==
    /\ apc = "reason"
    /\ ~ result.recognized
    /\ phoneme_scores' = None
    /\ apc' = "returned"
    /\ UNCHANGED <<variant, THRESHOLD, target_word, pc, low_scores, low_count,
                   it, readable, log, drilled, round, result, nth, verdict,
                   translate_vars, speak_vars>>

assess_recognized ==
    /\ apc = "reason"
    /\ result.recognized
    /\ phoneme_scores' = Some(<<>>)
    /\ nth' = 0
    /\ apc' = "phonemes"
    /\ UNCHANGED <<variant, THRESHOLD, target_word, pc, low_scores, low_count,
                   it, readable, log, drilled, round, result, verdict,
                   translate_vars, speak_vars>>

assess_phoneme ==
    /\ apc = "phonemes"
    /\ nth < Len(result.phonemes)
    /\ nth' = nth + 1
    /\ phoneme_scores' =
          Some(dict_setitem(phoneme_scores.items,
                            result.phonemes[nth + 1].phoneme,
                            result.phonemes[nth + 1].accuracy_score))
    /\ UNCHANGED <<variant, THRESHOLD, target_word, pc, low_scores, low_count,
                   it, readable, log, drilled, round, result, verdict, apc,
                   translate_vars, speak_vars>>

assess_return ==
    /\ apc = "phonemes"
    /\ nth = Len(result.phonemes)
    /\ apc' = "returned"
    /\ UNCHANGED <<variant, loop_vars, result, nth, verdict, translate_vars,
                   speak_vars>>

loop_retries ==
    /\ apc = "returned"
    /\ falsy(phoneme_scores)
    /\ verdict' = "retry"
    /\ apc' = "evaluated"
    /\ UNCHANGED <<variant, loop_vars, result, nth, translate_vars, speak_vars>>

practice_word_verdict ==
    /\ variant = "A"
    /\ apc = "returned"
    /\ ~ falsy(phoneme_scores)
    /\ low_scores' = low_comprehension(phoneme_scores, THRESHOLD)
    /\ verdict' = IF low_scores' = <<>> THEN "accepted" ELSE "drill"
    /\ apc' = "evaluated"
    /\ UNCHANGED <<variant, THRESHOLD, target_word, pc, phoneme_scores,
                   low_count, it, readable, log, drilled, round, result, nth,
                   translate_vars, speak_vars>>

main_verdict ==
    /\ variant = "B"
    /\ apc = "returned"
    /\ ~ falsy(phoneme_scores)
    /\ verdict' = IF all_above(phoneme_scores, THRESHOLD)
                  THEN "accepted" ELSE "drill"
    /\ apc' = "evaluated"
    /\ UNCHANGED <<variant, loop_vars, result, nth, translate_vars, speak_vars>>

NextAssess ==
    \/ assess_no_speech
    \/ assess_recognized
    \/ assess_phoneme
    \/ assess_return
    \/ loop_retries
    \/ practice_word_verdict
    \/ main_verdict

SpecAssess == InitAssess /\ [][NextAssess]_vars

\* the places of a symbol in an utterance
FirstOccurrence(u, symbol) ==
    CHOOSE k \in 1..Len(u) :
        u[k].phoneme = symbol /\ \A j \in 1..(k - 1) : u[j].phoneme # symbol

LastOccurrence(u, symbol) ==
    CHOOSE k \in 1..Len(u) :
        u[k].phoneme = symbol /\ \A j \in (k + 1)..Len(u) : u[j].phoneme # symbol

(***************************************************************************)
(* C17: the score set built by assess has one entry per distinct phoneme   *)
(* symbol; a symbol that occurs more than once keeps the position of its   *)
(* first occurrence and the score of its last one, so the round is judged  *)
(* on the last occurrence's score and can be accepted although an earlier  *)
(* occurrence scored below THRESHOLD.                                      *)
(***************************************************************************)
C17_LastScoreAtFirstPosition ==
    (apc \in {"returned", "evaluated"} /\ result.recognized) =>
        LET u == result.phonemes
            d == phoneme_scores.items
        IN  /\ phoneme_scores.some
            /\ \A a, b \in 1..Len(d) : a # b => d[a][1] # d[b][1]
            /\ {d[k][1] : k \in 1..Len(d)} = {u[k].phoneme : k \in 1..Len(u)}
            /\ \A a, b \in 1..Len(d) :
                  a < b => FirstOccurrence(u, d[a][1]) < FirstOccurrence(u, d[b][1])
            /\ \A k \in 1..Len(d) :
                  d[k][2] = u[LastOccurrence(u, d[k][1])].accuracy_score
            /\ (apc = "evaluated" /\ u # <<>>) =>
                  (verdict = "accepted" <=>
                      \A k \in 1..Len(u) :
                          u[LastOccurrence(u, u[k].phoneme)].accuracy_score
                              >= THRESHOLD)

C17_Witness ==
    /\ variant = "A"
    /\ apc = "evaluated"
    /\ verdict = "accepted"
    /\ Len(result.phonemes) = 3
    /\ result.phonemes[1].phoneme = result.phonemes[3].phoneme
    /\ result.phonemes[2].phoneme # result.phonemes[1].phoneme
    /\ result.phonemes[1].accuracy_score < THRESHOLD
    /\ Len(phoneme_scores.items) = 2

(***************************************************************************)
(* speak, statement by statement, called MaxCalls times one after the      *)
(* other as the practice loop does, with get_google_home_cast and the      *)
(* global _cast of main.py.  Every call to a library that works on the     *)
(* network, the audio device or the file system either succeeds or raises. *)
(* A clip is named by the number of the speak call that synthesized it; a  *)
(* cast handle by the number of the call that created it.  An exception    *)
(* that leaves speak ends the process (spc = "raised"): nothing in         *)
(* practice_word, main or the module's top level catches it.               *)
(***************************************************************************)
MaxCalls == 2   \* speak calls in one run of the process

GoogleHomeEnv == {"ip", "name", "auto"}

rest_vars == <<variant, loop_vars, translate_vars, assess_vars>>

InitSpeak ==
    /\ variant \in {"A", "B"}
    /\ \/ variant = "A" /\ CHROMECAST_AVAILABLE \in BOOLEAN
                        /\ GOOGLE_HOME \in GoogleHomeEnv
       \/ variant = "B" /\ CHROMECAST_AVAILABLE = FALSE /\ GOOGLE_HOME = "auto"
    /\ cast_global = no_cast
    /\ cast = no_cast
    /\ outcome = "none"
    /\ calls = 0
    /\ synthesized = {}
    /\ files = {}
    /\ cwd = "original"
    /\ httpd = "none"
    /\ raising = FALSE
    /\ media = no_media
    /\ playing = {}
    /\ heard = <<>>
    /\ spc = "call"
    /\ loop_idle
    /\ translate_idle
    /\ assess_idle

\* main.py 111-119, main2.py 44-52: convert and the writing of the chunks
speak_synthesize ==
    /\ spc \in {"call", "returned"}
    /\ calls < MaxCalls
    /\ calls' = calls + 1
    /\ cast' = no_cast
    /\ outcome' = "none"
    /\ httpd' = "none"
    /\ raising' = FALSE
    /\ \/ /\ files' = files \cup {calls'}        \* every chunk written
          /\ synthesized' = synthesized \cup {calls'}
          /\ spc' = IF variant = "A" THEN "get_cast" ELSE "mixer_init"
       \/ /\ UNCHANGED <<files, synthesized>>    \* convert raises
          /\ spc' = "raised"
       \/ /\ files' = files \cup {calls'}        \* the stream raises in the loop
          /\ UNCHANGED synthesized
          /\ spc' = "raised"
    /\ UNCHANGED <<rest_vars, CHROMECAST_AVAILABLE, GOOGLE_HOME, cast_global,
                   cwd, media, playing, heard>>

\* main.py 65-66
get_cast_unavailable ==
    /\ spc = "get_cast"
    /\ ~ CHROMECAST_AVAILABLE
    /\ cast' = no_cast
    /\ outcome' = "unavailable"
    /\ spc' = "if_cast"
    /\ UNCHANGED <<rest_vars, CHROMECAST_AVAILABLE, GOOGLE_HOME, cast_global,
                   calls, synthesized, files, cwd, httpd, raising, media,
                   playing, heard>>

\* main.py 68-75: _cast.wait() on the cached handle
get_cast_cached ==
    /\ spc = "get_cast"
    /\ CHROMECAST_AVAILABLE
    /\ cast_global # no_cast
    /\ \/ /\ cast' = cast_global                 \* return _cast
          /\ outcome' = "reused"
          /\ spc' = "if_cast"
          /\ UNCHANGED cast_global
       \/ /\ cast_global' = no_cast               \* except: _cast = None
          /\ spc' = "connect"
          /\ UNCHANGED <<cast, outcome>>
    /\ UNCHANGED <<rest_vars, CHROMECAST_AVAILABLE, GOOGLE_HOME, calls,
                   synthesized, files, cwd, httpd, raising, media, playing,
                   heard>>

\* main.py 68: no cached handle
get_cast_not_cached ==
    /\ spc = "get_cast"
    /\ CHROMECAST_AVAILABLE
    /\ cast_global = no_cast
    /\ spc' = "connect"
    /\ UNCHANGED <<rest_vars, CHROMECAST_AVAILABLE, GOOGLE_HOME, cast_global,
                   cast, outcome, calls, synthesized, files, cwd, httpd,
                   raising, media, playing, heard>>

\* main.py 104-106
get_cast_except ==
    /\ cast' = no_cast
    /\ outcome' = "failed"
    /\ spc' = "if_cast"

\* main.py 77-98: the three ways to a new handle
get_cast_connect ==
    /\ spc = "connect"
    /\ \/ /\ cast_global' = calls                \* 81, 88-89, 96-98
          /\ spc' = "wait"
          /\ UNCHANGED <<cast, outcome>>
       \/ /\ get_cast_except                     \* 81, 85-87, 93-95 raise
          /\ UNCHANGED cast_global
       \/ /\ GOOGLE_HOME # "ip"                  \* 89, 97: stop_discovery raises
          /\ cast_global' = calls
          /\ get_cast_except
    /\ UNCHANGED <<rest_vars, CHROMECAST_AVAILABLE, GOOGLE_HOME, calls,
                   synthesized, files, cwd, httpd, raising, media, playing,
                   heard>>

\* main.py 101-106: _cast.wait() on the new handle
get_cast_wait ==
    /\ spc = "wait"
    /\ \/ /\ cast' = cast_global                 \* 103
          /\ outcome' = "connected"
          /\ spc' = "if_cast"
          /\ UNCHANGED cast_global
       \/ /\ get_cast_except                     \* 101 raises
          /\ UNCHANGED cast_global
    /\ UNCHANGED <<rest_vars, CHROMECAST_AVAILABLE, GOOGLE_HOME, calls,
                   synthesized, files, cwd, httpd, raising, media, playing,
                   heard>>

\* main.py 123
speak_if_cast ==
    /\ spc = "if_cast"
    /\ spc' = IF cast # no_cast THEN "find_port" ELSE "mixer_init"
    /\ UNCHANGED <<rest_vars, CHROMECAST_AVAILABLE, GOOGLE_HOME, cast_global,
                   cast, outcome, calls, synthesized, files, cwd, httpd,
                   raising, media, playing, heard>>

\* main.py 126-136: a free port among ten, or raise
speak_find_port ==
    /\ spc = "find_port"
    /\ spc' \in {"local_ip", "except"}
    /\ UNCHANGED <<rest_vars, CHROMECAST_AVAILABLE, GOOGLE_HOME, cast_global,
                   cast, outcome, calls, synthesized, files, cwd, httpd,
                   raising, media, playing, heard>>

\* main.py 139-147: the handler's gethostbyname may raise
speak_local_ip ==
    /\ spc = "local_ip"
    /\ spc' \in {"chdir", "except"}
    /\ UNCHANGED <<rest_vars, CHROMECAST_AVAILABLE, GOOGLE_HOME, cast_global,
                   cast, outcome, calls, synthesized, files, cwd, httpd,
                   raising, media, playing, heard>>

\* main.py 150-154
speak_chdir ==
    /\ spc = "chdir"
    /\ cwd' = "temp"
    /\ spc' = "tcpserver"
    /\ UNCHANGED <<rest_vars, CHROMECAST_AVAILABLE, GOOGLE_HOME, cast_global,
                   cast, outcome, calls, synthesized, files, httpd, raising,
                   media, playing, heard>>

\* main.py 155-156: TCPServer binds the port, or raises
speak_tcpserver ==
    /\ spc = "tcpserver"
    /\ \/ httpd' = "bound" /\ spc' = "thread"
       \/ UNCHANGED httpd /\ spc' = "except"
    /\ UNCHANGED <<rest_vars, CHROMECAST_AVAILABLE, GOOGLE_HOME, cast_global,
                   cast, outcome, calls, synthesized, files, cwd, raising,
                   media, playing, heard>>

\* main.py 157-159
speak_thread_start ==
    /\ spc = "thread"
    /\ httpd' = "serving"
    /\ spc' = "play_media"
    /\ UNCHANGED <<rest_vars, CHROMECAST_AVAILABLE, GOOGLE_HOME, cast_global,
                   cast, outcome, calls, synthesized, files, cwd, raising,
                   media, playing, heard>>

\* main.py 163-168: the load request is sent to the device, or the call raises
speak_play_media ==
    /\ spc = "play_media"
    /\ \/ /\ media' = [active |-> FALSE, player_state |-> "UNKNOWN",
                       finished |-> FALSE, clip |-> calls]
          /\ spc' = "block_until_active"
          /\ UNCHANGED raising
       \/ /\ raising' = TRUE
          /\ spc' = "finally"
          /\ UNCHANGED media
    /\ UNCHANGED <<rest_vars, CHROMECAST_AVAILABLE, GOOGLE_HOME, cast_global,
                   cast, outcome, calls, synthesized, files, cwd, httpd,
                   playing, heard>>

\* main.py 169: returns once the device reports a media session
speak_block_until_active ==
    /\ spc = "block_until_active"
    /\ media.active
    /\ spc' = "is_playing"
    /\ UNCHANGED <<rest_vars, CHROMECAST_AVAILABLE, GOOGLE_HOME, cast_global,
                   cast, outcome, calls, synthesized, files, cwd, httpd,
                   raising, media, playing, heard>>

\* main.py 172-173: the loop ends when is_playing is false
speak_is_playing ==
    /\ spc = "is_playing"
    /\ media.player_state # "PLAYING"
    /\ spc' = "finally"
    /\ UNCHANGED <<rest_vars, CHROMECAST_AVAILABLE, GOOGLE_HOME, cast_global,
                   cast, outcome, calls, synthesized, files, cwd, httpd,
                   raising, media, playing, heard>>

\* variant of speak_finally that leaves the server running
speak_finally_no_shutdown ==
    /\ spc = "finally"
    /\ cwd' = "original"
    /\ files' = files \ {calls}
    /\ raising' = FALSE
    /\ spc' = IF raising THEN "except" ELSE "returned"
    /\ UNCHANGED <<rest_vars, CHROMECAST_AVAILABLE, GOOGLE_HOME, cast_global,
                   cast, outcome, calls, synthesized, httpd, media, playing,
                   heard>>

\* main.py 174-182: shutdown, chdir back, unlink; then return, or the
\* exception goes on to the handler of line 183
speak_finally ==
    /\ spc = "finally"
    /\ httpd' = "shutdown"
    /\ cwd' = "original"
    /\ files' = files \ {calls}
    /\ raising' = FALSE
    /\ spc' = IF raising THEN "except" ELSE "returned"
    /\ UNCHANGED <<rest_vars, CHROMECAST_AVAILABLE, GOOGLE_HOME, cast_global,
                   cast, outcome, calls, synthesized, media, playing, heard>>

\* main.py 183-185
speak_except ==
    /\ spc = "except"
    /\ spc' = "mixer_init"
    /\ UNCHANGED <<rest_vars, CHROMECAST_AVAILABLE, GOOGLE_HOME, cast_global,
                   cast, outcome, calls, synthesized, files, cwd, httpd,
                   raising, media, playing, heard>>

\* main.py 189, main2.py 56
speak_mixer_init ==
    /\ spc = "mixer_init"
    /\ \/ spc' = "load" /\ UNCHANGED raising
       \/ spc' = "finally_local" /\ raising' = TRUE
    /\ UNCHANGED <<rest_vars, CHROMECAST_AVAILABLE, GOOGLE_HOME, cast_global,
                   cast, outcome, calls, synthesized, files, cwd, httpd, media,
                   playing, heard>>

\* main.py 190, main2.py 57: load raises when the file is not there
speak_music_load ==
    /\ spc = "load"
    /\ \/ calls \in files /\ spc' = "play" /\ UNCHANGED raising
       \/ spc' = "finally_local" /\ raising' = TRUE
    /\ UNCHANGED <<rest_vars, CHROMECAST_AVAILABLE, GOOGLE_HOME, cast_global,
                   cast, outcome, calls, synthesized, files, cwd, httpd, media,
                   playing, heard>>

\* main.py 191, main2.py 58
speak_music_play ==
    /\ spc = "play"
    /\ \/ /\ playing' = playing \cup {<<"local", calls>>}
          /\ spc' = "get_busy"
          /\ UNCHANGED raising
       \/ /\ UNCHANGED playing
          /\ spc' = "finally_local"
          /\ raising' = TRUE
    /\ UNCHANGED <<rest_vars, CHROMECAST_AVAILABLE, GOOGLE_HOME, cast_global,
                   cast, outcome, calls, synthesized, files, cwd, httpd, media,
                   heard>>

\* main.py 193-194, main2.py 60-61: the loop ends when get_busy is false
speak_get_busy ==
    /\ spc = "get_busy"
    /\ <<"local", calls>> \notin playing
    /\ spc' = "finally_local"
    /\ UNCHANGED <<rest_vars, CHROMECAST_AVAILABLE, GOOGLE_HOME, cast_global,
                   cast, outcome, calls, synthesized, files, cwd, httpd,
                   raising, media, playing, heard>>

\* variant of speak_finally_local without os.unlink
speak_finally_local_no_unlink ==
    /\ spc = "finally_local"
    /\ raising' = FALSE
    /\ spc' = IF raising THEN "raised" ELSE "returned"
    /\ UNCHANGED <<rest_vars, CHROMECAST_AVAILABLE, GOOGLE_HOME, cast_global,
                   cast, outcome, calls, synthesized, files, cwd, httpd, media,
                   playing, heard>>

\* main.py 195-200, main2.py 62-67: unlink, its own error passed over; then
\* return, or the exception leaves speak
speak_finally_local ==
    /\ spc = "finally_local"
    /\ files' = files \ {calls}
    /\ raising' = FALSE
    /\ spc' = IF raising THEN "raised" ELSE "returned"
    /\ UNCHANGED <<rest_vars, CHROMECAST_AVAILABLE, GOOGLE_HOME, cast_global,
                   cast, outcome, calls, synthesized, cwd, httpd, media,
                   playing, heard>>

\* pygame's mixer comes to the end of the clip
mixer_finishes ==
    /\ \E c \in 1..MaxCalls :
          /\ <<"local", c>> \in playing
          /\ playing' = playing \ {<<"local", c>>}
          /\ heard' = Append(heard, <<"local", c>>)
    /\ UNCHANGED <<rest_vars, CHROMECAST_AVAILABLE, GOOGLE_HOME, cast_global,
                   cast, outcome, calls, synthesized, files, cwd, httpd,
                   raising, media, spc>>

\* the device answers the load request: a media session, nothing sounding yet
cast_device_session ==
    /\ media.clip # 0
    /\ ~ media.active
    /\ media' = [media EXCEPT !.active = TRUE, !.player_state = "IDLE"]
    /\ UNCHANGED <<rest_vars, CHROMECAST_AVAILABLE, GOOGLE_HOME, cast_global,
                   cast, outcome, calls, synthesized, files, cwd, httpd,
                   raising, playing, heard, spc>>

\* the device fetches the clip from the HTTP server and starts to play it
cast_device_plays ==
    /\ media.active
    /\ media.player_state = "IDLE"
    /\ ~ media.finished
    /\ httpd = "serving"
    /\ media.clip \in files
    /\ media' = [media EXCEPT !.player_state = "PLAYING"]
    /\ playing' = playing \cup {<<"cast", media.clip>>}
    /\ UNCHANGED <<rest_vars, CHROMECAST_AVAILABLE, GOOGLE_HOME, cast_global,
                   cast, outcome, calls, synthesized, files, cwd, httpd,
                   raising, heard, spc>>

\* the device comes to the end of the clip
cast_device_finishes ==
    /\ media.player_state = "PLAYING"
    /\ media' = [media EXCEPT !.player_state = "IDLE", !.finished = TRUE]
    /\ playing' = playing \ {<<"cast", media.clip>>}
    /\ heard' = Append(heard, <<"cast", media.clip>>)
    /\ UNCHANGED <<rest_vars, CHROMECAST_AVAILABLE, GOOGLE_HOME, cast_global,
                   cast, outcome, calls, synthesized, files, cwd, httpd,
                   raising, spc>>

NextSpeak ==
    \/ speak_synthesize
    \/ get_cast_unavailable
    \/ get_cast_cached
    \/ get_cast_not_cached
    \/ get_cast_connect
    \/ get_cast_wait
    \/ speak_if_cast
    \/ speak_find_port
    \/ speak_local_ip
    \/ speak_chdir
    \/ speak_tcpserver
    \/ speak_thread_start
    \/ speak_play_media
    \/ speak_block_until_active
    \/ speak_is_playing
    \/ speak_finally
    \/ speak_except
    \/ speak_mixer_init
    \/ speak_music_load
    \/ speak_music_play
    \/ speak_get_busy
    \/ speak_finally_local
    \/ mixer_finishes
    \/ cast_device_session
    \/ cast_device_plays
    \/ cast_device_finishes

SpecSpeak == InitSpeak /\ [][NextSpeak]_vars

\* positions of speak between os.chdir(temp_dir) and the end of the finally
ServingPositions ==
    {"tcpserver", "thread", "play_media", "block_until_active", "is_playing",
     "finally"}

\* positions of the local playback of lines 188-200
LocalPositions == {"mixer_init", "load", "play", "get_busy", "finally_local"}

\* speak has handed control back, or has left with an exception
CallOver == spc \in {"returned", "raised"}

(***************************************************************************)
(* C11: every prompt is played to its end before speak returns, on the     *)
(* cast path and on the local path: never two clips sounding at once, and  *)
(* when speak has returned nothing is sounding and the clips heard so far  *)
(* are those of all the calls, in the order of the calls.                  *)
(***************************************************************************)
C11_PlayedToCompletionBeforeReturn ==
    /\ Cardinality(playing) <= 1
    /\ spc = "returned" =>
          /\ playing = {}
          /\ Len(heard) = calls
          /\ \A k \in 1..calls : heard[k][2] = k

(***************************************************************************)
(* C12: the HTTP server that speak starts is serving only between the      *)
(* start of its thread and the finally of line 174: it is not serving when *)
(* speak has returned, has fallen back to local playback or has raised.    *)
(***************************************************************************)
C12_ServerShutDownBeforeReturn ==
    /\ httpd = "serving" =>
          spc \in {"play_media", "block_until_active", "is_playing", "finally"}
    /\ (spc = "returned" /\ media.clip = calls) => httpd = "shutdown"

C12_Witness ==
    /\ spc \in LocalPositions
    /\ cast # no_cast
    /\ httpd = "shutdown"

(***************************************************************************)
(* C14: when casting fails after a cast handle was obtained, speak falls   *)
(* back to local playback and the clip is played locally: while the        *)
(* fallback initialises the mixer, loads, plays and waits, the clip's file *)
(* is there to be loaded and played.                                       *)
(***************************************************************************)
C14_FallbackPlaysClipLocally ==
    (cast # no_cast /\ spc \in {"mixer_init", "load", "play", "get_busy"}) =>
        calls \in files

(***************************************************************************)
(* C15: after a get_google_home_cast call that returns None because        *)
(* connecting or the connectivity check failed, _cast is None; a non-None  *)
(* return value is the cached handle, and that handle passed _cast.wait()  *)
(* in that call.                                                           *)
(***************************************************************************)
C15_HandleResetOnFailure ==
    spc = "if_cast" =>
        /\ outcome = "failed" => cast_global = no_cast
        /\ cast # no_cast =>
              cast = cast_global /\ outcome \in {"reused", "connected"}

C20_WorkingDirectoryRestored ==
    cwd = "temp" => spc \in ServingPositions
====
